---------------------------- MODULE Spec2Model ----------------------------
(***************************************************************************)
(* Model of question_4_clinical_agent/clinical_data_agent.py:              *)
(* ClinicalTrialDataAgent, its rule-based question resolver                *)
(* (_mock_llm_response), the remote classifier call with fallback          *)
(* (_call_llm) and the single-predicate filter (query).                    *)
(*                                                                         *)
(* Questions, keywords and cell values are TLA+ strings; containment,      *)
(* lower() and upper() are computed character by character.                *)
(***************************************************************************)
EXTENDS Integers, Sequences, FiniteSets, TLC

VARIABLES
    df,            \* self.df: the DataFrame read at construction
    use_mock_llm,  \* self.use_mock_llm
    question,      \* argument of the last call
    remote,        \* what the remote classifier did during the last call
    llm_output,    \* value _call_llm / _mock_llm_response returned in the last call
    result,        \* outcome of the last query call: a returned tuple or a raised exception
    csv,           \* history: the table as it was loaded by __init__
    repeated,      \* history: whether the last query call repeated the question (and the
                   \* classifier outcome) of the call before it
    agrees,        \* history: the last query call repeated the question of the call
                   \* before it and had the same outcome
    both_returned  \* history: the last query call and the one before it both returned

vars ==
    <<df, use_mock_llm, question, remote, llm_output, result, csv, repeated, agrees,
      both_returned>>

(***************************************************************************)
(* Bounds of the model.                                                    *)
(***************************************************************************)
MaxWords == 3
MaxPhraseWords == 2
MaxRows == 2

(***************************************************************************)
(* Python strings: str.lower(), str.upper(), `needle in haystack`.         *)
(***************************************************************************)
UPPERCASE == "ABCDEFGHIJKLMNOPQRSTUVWXYZ"
LOWERCASE == "abcdefghijklmnopqrstuvwxyz"

CharAt(s, i) == SubSeq(s, i, i)

\* the letters of `from`, each mapped to the letter of `to` at its place
Letters(from, to) ==
    [c \in {CharAt(from, i) : i \in 1..Len(from)} |->
        CharAt(to, CHOOSE i \in 1..Len(from) : CharAt(from, i) = c)]

ToLower == Letters(UPPERCASE, LOWERCASE)
ToUpper == Letters(LOWERCASE, UPPERCASE)

RECURSIVE MapStr(_, _)
MapStr(s, table) ==
    IF s = "" THEN ""
    ELSE LET c == CharAt(s, 1)
         IN  (IF c \in DOMAIN table THEN table[c] ELSE c)
                 \o MapStr(SubSeq(s, 2, Len(s)), table)

lower(s) == MapStr(s, ToLower)
upper(s) == MapStr(s, ToUpper)

\* Python's `word in text` on two strings
In(word, text) ==
    \E i \in 1..(Len(text) - Len(word) + 1) : SubSeq(text, i, i + Len(word) - 1) = word

\* any(word in text for word in words)
AnyIn(words, text) == \E word \in words : In(word, text)


(***************************************************************************)
(* Python values that can sit in llm_output or in a cell of the frame.     *)
(***************************************************************************)
PyStr(s) == [str |-> s]
PyInt(n) == [int |-> n]
PyList(xs) == [list |-> xs]
PyDict(d) == [dict |-> d]
NaN == [nan |-> TRUE]
PyNone == [none |-> TRUE]

IsStr(v) == "str" \in DOMAIN v
IsDict(v) == "dict" \in DOMAIN v

(***************************************************************************)
(* _mock_llm_response: the rule-based resolver.  Each block of the code is *)
(* one operator that yields the returned dict, or FallThrough when the     *)
(* block returns nothing and control reaches the next block.               *)
(***************************************************************************)
Dict(column, value) ==
    PyDict([target_column |-> PyStr(column), filter_value |-> PyStr(value)])

FallThrough == [fall_through |-> TRUE]

\* mutant: "severe" is missing from the trigger words
SeverityWordsWithoutSevere == {"severity", "intensity", "intense"}

SeverityWords == {"severity", "severe", "intensity", "intense"}

\* mutant: a trigger word without a level word answers MILD instead of falling through
SeverityMappingWithDefault(question_lower) ==
    IF AnyIn(SeverityWords, question_lower)
    THEN IF In("mild", question_lower) THEN Dict("AESEV", "MILD")
         ELSE IF In("moderate", question_lower) THEN Dict("AESEV", "MODERATE")
         ELSE IF In("severe", question_lower) THEN Dict("AESEV", "SEVERE")
         ELSE Dict("AESEV", "MILD")
    ELSE FallThrough

SeverityMapping(question_lower) ==
    IF AnyIn(SeverityWords, question_lower)
    THEN IF In("mild", question_lower) THEN Dict("AESEV", "MILD")
         ELSE IF In("moderate", question_lower) THEN Dict("AESEV", "MODERATE")
         ELSE IF In("severe", question_lower) THEN Dict("AESEV", "SEVERE")
         ELSE FallThrough
    ELSE FallThrough

BodySystemMapping(question_lower) ==
    IF AnyIn({"cardiac", "heart", "cardiovascular"}, question_lower)
    THEN Dict("AESOC", "CARDIAC DISORDERS")
    ELSE IF AnyIn({"skin", "dermal", "dermatologic"}, question_lower)
    THEN Dict("AESOC", "SKIN AND SUBCUTANEOUS TISSUE DISORDERS")
    ELSE IF AnyIn({"gastrointestinal", "digestive", "gi", "stomach"}, question_lower)
    THEN Dict("AESOC", "GASTROINTESTINAL DISORDERS")
    ELSE IF AnyIn({"infection", "infectious"}, question_lower)
    THEN Dict("AESOC", "INFECTIONS AND INFESTATIONS")
    ELSE IF AnyIn({"general disorder", "administration site"}, question_lower)
    THEN Dict("AESOC", "GENERAL DISORDERS AND ADMINISTRATION SITE CONDITIONS")
    ELSE FallThrough

\* the dict literal `conditions`, in insertion order
conditions ==
    << <<"erythema", "ERYTHEMA">>,
       <<"diarrhea", "DIARRHOEA">>,
       <<"diarrhoea", "DIARRHOEA">>,
       <<"fatigue", "FATIGUE">>,
       <<"pruritus", "APPLICATION SITE PRURITUS">>,
       <<"itching", "APPLICATION SITE PRURITUS">>,
       <<"headache", "HEADACHE">>,
       <<"nausea", "NAUSEA">>,
       <<"hiatus hernia", "HIATUS HERNIA">>,
       <<"bundle branch block", "BUNDLE BRANCH BLOCK LEFT">>,
       <<"respiratory infection", "UPPER RESPIRATORY TRACT INFECTION">> >>

\* for condition_key, condition_value in conditions.items(): first key contained
ConditionMapping(question_lower) ==
    LET hits == {i \in 1..Len(conditions) : In(conditions[i][1], question_lower)}
    IN  IF hits = {} THEN FallThrough
        ELSE LET first == CHOOSE i \in hits : \A j \in hits : i <= j
             IN  Dict("AETERM", conditions[first][2])

\* mutant: the value is Y only when the question says yes
SeriousMappingYesOnly(question_lower) ==
    IF In("serious", question_lower)
    THEN LET value == IF In("yes", question_lower) THEN "Y" ELSE "N"
         IN  Dict("AESER", value)
    ELSE FallThrough

SeriousMapping(question_lower) ==
    IF In("serious", question_lower)
    THEN LET value == IF In("yes", question_lower) \/ In("serious", question_lower)
                      THEN "Y" ELSE "N"
         IN  Dict("AESER", value)
    ELSE FallThrough

RelationshipMapping(question_lower) ==
    IF In("relationship", question_lower) \/ In("related", question_lower)
    THEN IF In("probable", question_lower) THEN Dict("AEREL", "PROBABLE")
         ELSE IF In("possible", question_lower) THEN Dict("AEREL", "POSSIBLE")
         ELSE IF In("remote", question_lower) THEN Dict("AEREL", "REMOTE")
         ELSE IF In("none", question_lower) THEN Dict("AEREL", "NONE")
         ELSE FallThrough
    ELSE FallThrough

OutcomeMapping(question_lower) ==
    IF In("outcome", question_lower) \/ In("resolved", question_lower)
           \/ In("recovered", question_lower)
    THEN IF In("not", question_lower)
         THEN Dict("AEOUT", "NOT RECOVERED/NOT RESOLVED")
         ELSE Dict("AEOUT", "RECOVERED/RESOLVED")
    ELSE FallThrough

\* mutant: no final return, the function ends and yields None
MissingDefault == PyNone

DefaultFallback == Dict("AESEV", "MILD")

_mock_llm_response(q) ==
    LET question_lower == lower(q)
    IN  IF SeverityMapping(question_lower) # FallThrough
        THEN SeverityMapping(question_lower)
        ELSE IF BodySystemMapping(question_lower) # FallThrough
        THEN BodySystemMapping(question_lower)
        ELSE IF ConditionMapping(question_lower) # FallThrough
        THEN ConditionMapping(question_lower)
        ELSE IF SeriousMapping(question_lower) # FallThrough
        THEN SeriousMapping(question_lower)
        ELSE IF RelationshipMapping(question_lower) # FallThrough
        THEN RelationshipMapping(question_lower)
        ELSE IF OutcomeMapping(question_lower) # FallThrough
        THEN OutcomeMapping(question_lower)
        ELSE DefaultFallback

(***************************************************************************)
(* Inputs of the resolver: questions of up to MaxWords words of Keywords   *)
(* (trigger and level words of the blocks, words that trigger two blocks,  *)
(* a word that triggers none), and questions of up to MaxPhraseWords words *)
(* that may also name any key of the condition table and more body-system  *)
(* and level words ("Give" holds the gastrointestinal keyword "gi").       *)
(***************************************************************************)
Keywords ==
    { "severity", "severe", "Moderate", "mild",
      "cardiac", "erythema", "respiratory infection",
      "serious", "related", "possible", "resolved", "not", "patients" }

ConditionKeys == {conditions[i][1] : i \in 1..Len(conditions)}

MoreWords == {"Give", "skin", "administration site", "none"}

RECURSIVE Join(_)
Join(words) ==
    IF Len(words) = 0 THEN ""
    ELSE IF Len(words) = 1 THEN words[1]
    ELSE words[1] \o " " \o Join(Tail(words))

Phrases(words, n) == {Join(ws) : ws \in UNION {[1..k -> words] : k \in 0..n}}

Questions ==
    Phrases(Keywords, MaxWords)
        \cup Phrases(Keywords \cup ConditionKeys \cup MoreWords, MaxPhraseWords)

NotCalled == [not_called |-> TRUE]

EmptyFrame == [columns |-> {}, rows |-> <<>>]

(***************************************************************************)
(* The resolver alone: a question is drawn, _mock_llm_response is applied. *)
(***************************************************************************)
InitResolver ==
    /\ question \in Questions
    /\ llm_output = NotCalled
    /\ df = EmptyFrame
    /\ csv = EmptyFrame
    /\ use_mock_llm = TRUE
    /\ remote = NotCalled
    /\ result = NotCalled
    /\ repeated = "no"
    /\ agrees = FALSE
    /\ both_returned = FALSE

Resolve ==
    /\ llm_output = NotCalled
    /\ llm_output' = _mock_llm_response(question)
    /\ UNCHANGED <<df, use_mock_llm, question, remote, result, csv, repeated, agrees,
                   both_returned>>

NextResolver == Resolve

SpecResolver == InitResolver /\ [][NextResolver]_vars


(***************************************************************************)
(* The DataFrame: a set of column names and a sequence of rows, each row a *)
(* function from the columns to cells.  pd.read_csv leaves a str in a cell *)
(* that holds text and NaN in an empty one.                                *)
(***************************************************************************)
Schemas ==
    { {"USUBJID", "AESEV", "AESOC"},
      {"USUBJID", "AESEV"},
      {"AESEV", "AESOC"} }

CellsOf(column) ==
    IF column = "USUBJID" THEN {PyStr("01-701-1015"), PyStr("01-701-1023")}
    ELSE IF column = "AESEV" THEN {PyStr("Moderate"), NaN}
    ELSE {PyStr("CARDIAC DISORDERS")}

RowsOf(schema) ==
    {row \in [schema -> UNION {CellsOf(c) : c \in schema}] :
        \A c \in schema : row[c] \in CellsOf(c)}

Tables ==
    UNION {{[columns |-> schema, rows |-> rows] :
                rows \in UNION {[1..n -> RowsOf(schema)] : n \in 0..MaxRows}} :
           schema \in Schemas}

\* dtype pd.read_csv infers for a column: text makes it object, a column of
\* empty cells only is float64, a frame without rows has object columns
dtype(frame, column) ==
    IF Len(frame.rows) = 0 \/ \E i \in 1..Len(frame.rows) : IsStr(frame.rows[i][column])
    THEN "object"
    ELSE "float64"

\* Series.str.upper(), one element: NaN stays NaN
str_upper(cell) == IF IsStr(cell) THEN PyStr(upper(cell.str)) ELSE NaN

\* self.df[self.df[column].str.upper() == value.upper()].copy()
Filter(frame, column, value) ==
    LET mask(row) == str_upper(row[column]) = PyStr(upper(value))
    IN  [columns |-> frame.columns, rows |-> SelectSeq(frame.rows, mask)]

Column(frame, column) == [i \in 1..Len(frame.rows) |-> frame.rows[i][column]]

\* mutant: tolist() without unique()
all_values(values) == values

\* Series.unique().tolist(): each value once, in order of first appearance
RECURSIVE unique(_)
unique(values) ==
    IF Len(values) = 0 THEN <<>>
    ELSE LET init == unique(SubSeq(values, 1, Len(values) - 1))
             last == values[Len(values)]
         IN  IF \E i \in 1..Len(init) : init[i] = last THEN init ELSE Append(init, last)

(***************************************************************************)
(* Outcomes of a call.                                                     *)
(***************************************************************************)
Returned(count, unique_subjects, filtered_df) ==
    [count |-> count, subject_ids |-> unique_subjects, filtered_df |-> filtered_df]

Raised(exception, where) == [raised |-> exception, at |-> where]

IsReturned(r) == "count" \in DOMAIN r
IsRaised(r) == "raised" \in DOMAIN r

(***************************************************************************)
(* The remote classifier, as _call_llm sees it: the import fails, the      *)
(* client or the request raises, or a message comes back whose content is  *)
(* text that json.loads rejects or the JSON encoding of some value.        *)
(***************************************************************************)
ImportFails == [import_error |-> TRUE]
RequestRaises == [exception |-> TRUE]
Content(json) == [json |-> json]
NotJson == [text |-> "Sure! The column is AESEV."]

JsonObjects ==
    {d \in UNION {[K -> {PyStr("AESEV"), PyStr("AEBODSYS"), PyStr("moderate"), PyInt(7)}] :
                     K \in SUBSET {"target_column", "filter_value"}} :
        /\ "target_column" \in DOMAIN d
              => d["target_column"] \in {PyStr("AESEV"), PyStr("AEBODSYS")}
        /\ "filter_value" \in DOMAIN d
              => d["filter_value"] \in {PyStr("moderate"), PyInt(7)}}

ThreeFields ==
    [target_column |-> PyStr("AESEV"), filter_value |-> PyStr("moderate"),
     confidence |-> PyStr("high")]

JsonValues ==
    {PyDict(d) : d \in JsonObjects \cup {ThreeFields}}
        \cup {PyList(<<>>), PyStr("AESEV")}

RemoteOutcomes ==
    {ImportFails, RequestRaises, NotJson} \cup {Content(j) : j \in JsonValues}

\* json.loads(response.choices[0].message.content) raises on text that is not JSON
JsonLoadsRaises(outcome) == "json" \notin DOMAIN outcome

_call_llm(mock, q, outcome) ==
    IF mock THEN _mock_llm_response(q)
    ELSE IF outcome = ImportFails THEN _mock_llm_response(q)
    ELSE IF outcome = RequestRaises THEN _mock_llm_response(q)
    ELSE IF JsonLoadsRaises(outcome) THEN _mock_llm_response(q)
    ELSE outcome.json

(***************************************************************************)
(* query, after _call_llm has returned llm_output.                         *)
(***************************************************************************)
query(frame, out) ==
    IF ~IsDict(out)
    THEN Raised("TypeError", "llm_output['target_column']")
    ELSE IF "target_column" \notin DOMAIN out.dict
    THEN Raised("KeyError", "llm_output['target_column']")
    ELSE IF "filter_value" \notin DOMAIN out.dict
    THEN Raised("KeyError", "llm_output['filter_value']")
    ELSE
    LET target_column == out.dict["target_column"]
        filter_value == out.dict["filter_value"]
    IN  IF ~(IsStr(target_column) /\ target_column.str \in frame.columns)
        THEN Raised("KeyError", "self.df[target_column]")
        ELSE IF dtype(frame, target_column.str) # "object"
        THEN Raised("AttributeError", "self.df[target_column].str")
        ELSE IF ~IsStr(filter_value)
        THEN Raised("AttributeError", "filter_value.upper()")
        ELSE
        LET filtered_df == Filter(frame, target_column.str, filter_value.str)
        IN  IF "USUBJID" \notin filtered_df.columns
            THEN Raised("KeyError", "filtered_df['USUBJID']")
            ELSE LET unique_subjects == unique(Column(filtered_df, "USUBJID"))
                     count == Len(unique_subjects)
                 IN  Returned(count, unique_subjects, filtered_df)

(***************************************************************************)
(* The agent: __init__ reads the table, then query is called any number of *)
(* times.                                                                  *)
(***************************************************************************)
AgentQuestions == {"", "Moderate severity", "Cardiac disorders?"}

Init ==
    /\ csv \in Tables
    /\ df = csv
    /\ use_mock_llm \in BOOLEAN
    /\ question = ""
    /\ remote = NotCalled
    /\ llm_output = NotCalled
    /\ result = NotCalled
    /\ repeated = "no"
    /\ agrees = FALSE
    /\ both_returned = FALSE

\* mutant: the filter is applied to self.df itself
QueryFilteringInPlace(q, outcome) ==
    /\ question' = q
    /\ remote' = outcome
    /\ llm_output' = _call_llm(use_mock_llm, q, outcome)
    /\ result' = query(df, llm_output')
    /\ df' = IF IsReturned(result') THEN result'.filtered_df ELSE df
    /\ repeated' = IF result = NotCalled \/ q # question THEN "no"
                   ELSE IF outcome = remote THEN "same question, same classifier outcome"
                   ELSE "same question"
    /\ agrees' = (repeated' # "no" /\ result' = result)
    /\ both_returned' = (IsReturned(result) /\ IsReturned(result'))
    /\ UNCHANGED <<use_mock_llm, csv>>

Query(q, outcome) ==
    /\ question' = q
    /\ remote' = outcome
    /\ llm_output' = _call_llm(use_mock_llm, q, outcome)
    /\ result' = query(df, llm_output')
    /\ df' = df
    /\ repeated' = IF result = NotCalled \/ q # question THEN "no"
                   ELSE IF outcome = remote THEN "same question, same classifier outcome"
                   ELSE "same question"
    /\ agrees' = (repeated' # "no" /\ result' = result)
    /\ both_returned' = (IsReturned(result) /\ IsReturned(result'))
    /\ UNCHANGED <<use_mock_llm, csv>>

QueryMock == use_mock_llm /\ \E q \in AgentQuestions : Query(q, NotCalled)

QueryRemote ==
    ~use_mock_llm /\ \E q \in AgentQuestions : \E outcome \in RemoteOutcomes : Query(q, outcome)

Next == QueryMock \/ QueryRemote

Spec == Init /\ [][Next]_vars


(***************************************************************************)
(* Properties of the resolver, checked under SpecResolver.                 *)
(***************************************************************************)
FilterableColumns == {"AETERM", "AESEV", "AESOC", "AEBODSYS", "AESER", "AEREL", "AEOUT"}

SeverityLevels == {"mild", "moderate", "severe"}
RelationshipLevels == {"probable", "possible", "remote", "none"}

Present(words, text) == {w \in words : In(w, text)}

\* the rules of the resolver as the specification lists them: the condition of
\* each, in order
RuleConditions(ql) ==
    << AnyIn({"severity", "severe", "intensity", "intense"}, ql)
           /\ Present(SeverityLevels, ql) # {},
       AnyIn({"cardiac", "heart", "cardiovascular"}, ql),
       AnyIn({"skin", "dermal", "dermatologic"}, ql),
       AnyIn({"gastrointestinal", "digestive", "gi", "stomach"}, ql),
       AnyIn({"infection", "infectious"}, ql),
       AnyIn({"general disorder", "administration site"}, ql),
       \E i \in 1..Len(conditions) : In(conditions[i][1], ql),
       In("serious", ql),
       (In("relationship", ql) \/ In("related", ql))
           /\ Present(RelationshipLevels, ql) # {},
       In("outcome", ql) \/ In("resolved", ql) \/ In("recovered", ql),
       TRUE >>

\* and the outputs each rule may give
RuleOutputs(ql) ==
    << {Dict("AESEV", upper(w)) : w \in Present(SeverityLevels, ql)},
       {Dict("AESOC", "CARDIAC DISORDERS")},
       {Dict("AESOC", "SKIN AND SUBCUTANEOUS TISSUE DISORDERS")},
       {Dict("AESOC", "GASTROINTESTINAL DISORDERS")},
       {Dict("AESOC", "INFECTIONS AND INFESTATIONS")},
       {Dict("AESOC", "GENERAL DISORDERS AND ADMINISTRATION SITE CONDITIONS")},
       {Dict("AETERM", conditions[i][2]) :
           i \in {k \in 1..Len(conditions) :
                    /\ In(conditions[k][1], ql)
                    /\ \A j \in 1..(k - 1) : ~In(conditions[j][1], ql)}},
       {Dict("AESER", "Y"), Dict("AESER", "N")},
       {Dict("AEREL", upper(w)) : w \in Present(RelationshipLevels, ql)},
       {Dict("AEOUT", IF In("not", ql) THEN "NOT RECOVERED/NOT RESOLVED"
                      ELSE "RECOVERED/RESOLVED")},
       {Dict("AESEV", "MILD")} >>

FirstRule(ql) ==
    LET holds == RuleConditions(ql)
    IN  CHOOSE i \in 1..Len(holds) : holds[i] /\ \A j \in 1..(i - 1) : ~holds[j]

Resolved == llm_output # NotCalled

\* C2: the resolver returns the output of the first rule, in the order severity,
\* the five body-system groups, condition table, seriousness, relationship,
\* outcome, default, whose whole condition holds on the lowercased question; a
\* severity or relationship rule with its trigger word but no level word is
\* skipped, and with no rule (the empty question too) the result is (AESEV, MILD).
C2_FirstRuleWins ==
    Resolved =>
        LET ql == lower(question)
        IN  /\ llm_output \in RuleOutputs(ql)[FirstRule(ql)]
            /\ question = "" => llm_output = Dict("AESEV", "MILD")

\* a severity trigger word without a level word, skipped: a later rule answered
C2_Witness ==
    /\ Resolved
    /\ In("severity", lower(question))
    /\ Present(SeverityLevels, lower(question)) = {}
    /\ llm_output = Dict("AESER", "Y")

\* C3: a question with a severity trigger word and exactly one of the level
\* words mild, moderate, severe resolves to AESEV with that word uppercased,
\* whatever other keywords it holds.
C3_SeverityLevel ==
    Resolved =>
        LET ql == lower(question)
        IN  (/\ AnyIn({"severity", "severe", "intensity", "intense"}, ql)
             /\ Cardinality(Present(SeverityLevels, ql)) = 1)
                => \E w \in Present(SeverityLevels, ql) :
                       llm_output = Dict("AESEV", upper(w))

\* a severity question that also names a body system and an outcome
C3_Witness ==
    /\ Resolved
    /\ question = "cardiac Moderate severity"
    /\ llm_output = Dict("AESEV", "MODERATE")

\* C4: for every question, the empty one too, the resolver returns a pair whose
\* column is one of the seven filterable columns and whose value is a non-empty
\* string.
C4_TotalWellFormed ==
    Resolved =>
        /\ IsDict(llm_output)
        /\ DOMAIN llm_output.dict = {"target_column", "filter_value"}
        /\ IsStr(llm_output.dict["target_column"])
        /\ llm_output.dict["target_column"].str \in FilterableColumns
        /\ IsStr(llm_output.dict["filter_value"])
        /\ llm_output.dict["filter_value"].str # ""

\* the empty question, answered by the default
C4_Witness == Resolved /\ question = "" /\ llm_output = Dict("AESEV", "MILD")

\* C9: the resolver never returns (AESER, N): when the seriousness rule fires
\* the value is Y, also when the question holds "no" or "not".
C9_NeverSeriousN ==
    Resolved =>
        /\ llm_output # Dict("AESER", "N")
        /\ FirstRule(lower(question)) = 8 => llm_output = Dict("AESER", "Y")

\* the seriousness rule fired on a question that says "not"
C9_Witness ==
    /\ Resolved
    /\ question = "not serious"
    /\ llm_output = Dict("AESER", "Y")

ConditionValue(key) ==
    conditions[CHOOSE i \in 1..Len(conditions) : conditions[i][1] = key][2]

\* C10: every key of the condition table has a question that holds it and that
\* the resolver answers with AETERM and the value the table gives the key.
\* Stated of the key the resolver was just asked on its own: the blocks before
\* the table only look for substrings, so whatever they find in the bare key they
\* find in every question that holds it.
C10_EveryConditionEntryEffective ==
    (Resolved /\ question \in ConditionKeys)
        => \E q \in Questions :
               /\ In(question, lower(q))
               /\ _mock_llm_response(q) = Dict("AETERM", ConditionValue(question))

\* what the code does instead: a question that holds "respiratory infection"
\* holds "infection", and an earlier block answers
RespiratoryInfectionShadowed ==
    (Resolved /\ In("respiratory infection", lower(question)))
        => llm_output.dict["target_column"].str \in {"AESEV", "AESOC"}


(***************************************************************************)
(* Properties of query, checked under Spec.                                *)
(***************************************************************************)
Called == result # NotCalled

\* KeyError of self.df[target_column]: the dataset lacks the column
InvalidColumn == Raised("KeyError", "self.df[target_column]")

\* a JSON object with exactly the two string fields target_column, filter_value
ExpectedShape(json) ==
    /\ IsDict(json)
    /\ DOMAIN json.dict = {"target_column", "filter_value"}
    /\ IsStr(json.dict["target_column"])
    /\ IsStr(json.dict["filter_value"])

\* the failure modes of the remote classifier
ClassifierFailure(outcome) ==
    \/ outcome = RequestRaises
    \/ outcome = ImportFails
    \/ "json" \notin DOMAIN outcome
    \/ ~ExpectedShape(outcome.json)

\* C1: on every failure mode of the remote classifier (transport or auth error,
\* unavailable integration, a response that is not JSON, a JSON response that is
\* not an object with exactly the two string fields), query filters with the pair
\* of the rule-based resolver and surfaces no classifier failure.
C1_ClassifierFailureFallsBack ==
    (Called /\ ~use_mock_llm /\ ClassifierFailure(remote))
        => /\ llm_output = _mock_llm_response(question)
           /\ result = query(df, _mock_llm_response(question))

\* the failure modes the code does recover from
C1_RaisedFailureFallsBack ==
    (Called /\ ~use_mock_llm /\ "json" \notin DOMAIN remote)
        => /\ llm_output = _mock_llm_response(question)
           /\ result = query(df, _mock_llm_response(question))

\* the parsed pair of the last call, when llm_output holds one
HasPair == Called /\ ExpectedShape(llm_output)
target_column == llm_output.dict["target_column"].str
filter_value == llm_output.dict["filter_value"].str

\* the rows of the dataset whose cell in the column, uppercased, is the value
\* uppercased, in dataset order; a null cell matches nothing
MatchingRows ==
    LET matches(row) ==
            /\ IsStr(row[target_column])
            /\ upper(row[target_column].str) = upper(filter_value)
    IN  SelectSeq(df.rows, matches)

\* C5: when the parsed column exists in the dataset, query returns exactly the
\* rows whose cell in that column, uppercased, equals the value uppercased, in
\* dataset order; a null cell is never matched and never makes query fail; an
\* empty match set is a normal result with count 0.  (Stated of datasets that
\* have the USUBJID column, so that only the filter can fail.)
C5_FilterExact ==
    (HasPair /\ target_column \in df.columns /\ "USUBJID" \in df.columns)
        => /\ IsReturned(result)
           /\ result.filtered_df.rows = MatchingRows
           /\ MatchingRows = <<>> => result.count = 0

\* what the code does: the same, unless the column holds no text at all
C5_FilterExactOnTextColumns ==
    (HasPair /\ target_column \in df.columns /\ "USUBJID" \in df.columns
        /\ dtype(df, target_column) = "object")
        => /\ IsReturned(result)
           /\ result.filtered_df.rows = MatchingRows
           /\ MatchingRows = <<>> => result.count = 0

FirstIndex(values, v) == CHOOSE i \in 1..Len(values) : values[i] = v /\ \A j \in 1..(i - 1) : values[j] # v

\* C6: in every result the count is the number of distinct USUBJID values of
\* the matched rows, the subject-ID list holds each of them once in first-seen
\* order, and the count is at most the number of matched rows.
C6_DistinctSubjects ==
    IsReturned(result) =>
        LET ids == Column(result.filtered_df, "USUBJID")
            distinct == {ids[i] : i \in 1..Len(ids)}
            listed == result.subject_ids
        IN  /\ result.count = Cardinality(distinct)
            /\ Len(listed) = Cardinality(distinct)
            /\ {listed[i] : i \in 1..Len(listed)} = distinct
            /\ \A i, j \in 1..Len(listed) :
                   i < j => FirstIndex(ids, listed[i]) < FirstIndex(ids, listed[j])
            /\ result.count <= Len(result.filtered_df.rows)

\* one subject with two matching rows: two rows, count 1
C6_Witness ==
    /\ IsReturned(result)
    /\ Len(result.filtered_df.rows) = 2
    /\ result.count = 1
    /\ result.subject_ids = <<PyStr("01-701-1023")>>

\* two subjects, listed in the order of their rows
C6_WitnessOrder ==
    /\ IsReturned(result)
    /\ result.subject_ids = <<PyStr("01-701-1023"), PyStr("01-701-1015")>>

\* C7: when the parsed query names a column the dataset lacks, from the resolver
\* or from the remote classifier, query fails with InvalidColumn and returns
\* nothing; and InvalidColumn is the only error query can raise.  (Stated of
\* datasets that have the USUBJID column.)
C7_InvalidColumnOnly ==
    (Called /\ "USUBJID" \in df.columns) =>
        /\ (HasPair /\ target_column \notin df.columns) => result = InvalidColumn
        /\ IsRaised(result) => result = InvalidColumn

\* the first half alone, which the code satisfies
C7_MissingColumnRaises ==
    (HasPair /\ target_column \notin df.columns) => result = InvalidColumn

\* C8: query is read-only and idempotent: after any calls the dataset is as
\* loaded, and a call with the question of the call before it gives the same
\* count, subject-ID list and matched rows.  (Stated of two calls that both
\* returned a result.)
C8_Idempotent ==
    /\ df = csv
    /\ (repeated # "no" /\ both_returned) => agrees

\* C8 as amended: the dataset stays as loaded, and a call with the question of
\* the call before it has the same outcome (result or exception) when the
\* classifier step of the two calls had the same outcome, which is always so
\* with use_mock_llm, where no remote call is made.
C8_IdempotentGivenClassifier ==
    /\ df = csv
    /\ repeated = "same question, same classifier outcome" => agrees
    /\ (use_mock_llm /\ repeated # "no") => agrees

\* a question asked twice in mock mode, with matches both times
C8_Witness ==
    /\ use_mock_llm
    /\ repeated = "same question, same classifier outcome"
    /\ agrees
    /\ IsReturned(result)
    /\ result.count = 2

=============================================================================
